---- MODULE Spec2Model ----
(***************************************************************************)
(* ImageSplitter (src/src/App.tsx): the state of the App component and its *)
(* handlers.                                                               *)
(*                                                                         *)
(* Representation of numbers.                                              *)
(*   - Physical lengths (centimetres, JavaScript numbers) are integers in  *)
(*     units of 1/CM cm = 0.05 cm, so that 29.7 cm = 594 and the halving   *)
(*     of createSection is exact for every length with at most one         *)
(*     decimal digit (the step of the custom inputs).                      *)
(*   - Pixel coordinates handed to drawImage (JavaScript numbers, W/2 may  *)
(*     be fractional) are integers in units of 1/PX = half a pixel.        *)
(*     Canvas sizes are whole pixels (the canvas width/height attributes   *)
(*     are unsigned longs: a fractional value is truncated).               *)
(*   - Text (file names, the text of an input field) is a sequence of      *)
(*     one-character strings.                                              *)
(*   - null is the record Null.                                            *)
(***************************************************************************)
EXTENDS Integers, Sequences, FiniteSets, TLC

VARIABLES
  sourceImage,       \* useState<HTMLImageElement | null>   (line 44)
  fileName,          \* useState<string>                    (line 45)
  fileType,          \* useState<string>                    (line 46)
  paperFormat,       \* useState<PaperFormat>               (line 47)
  orientation,       \* useState<Orientation>               (line 48)
  customDimensions,  \* useState<Dimensions>                (line 49)
  splitSections,     \* useState<ImageSection[]>            (line 50)
  isProcessing,      \* useState(false)                     (line 51)
  error,             \* useState<string | null>             (line 52)
  loading,           \* Image objects whose src is set and whose onload/onerror is still to come (lines 83-92)
  zipping,           \* archives whose generateAsync is awaited (line 232)
  saved,             \* the last file handed to the browser for download (link.click / saveAs)
  lastExport         \* the download handler called last (lines 206, 216)

vars == <<sourceImage, fileName, fileType, paperFormat, orientation,
          customDimensions, splitSections, isProcessing, error, loading,
          zipping, saved, lastExport>>

appState == <<sourceImage, fileName, fileType, paperFormat, orientation,
              customDimensions, splitSections, isProcessing, error>>

----------------------------------------------------------------------------
(* Bounds of the model *)

MaxLoading == 2      \* image decodings in flight at once
MaxZipping == 1      \* archives being generated at once
MaxSide == 7         \* pixel width / height of the images of SpecSplit
MaxNameLen == 4      \* length of the file names of SpecExport

----------------------------------------------------------------------------
(* Representation *)

CM == 20
PX == 2
Null == [null |-> TRUE]

----------------------------------------------------------------------------
(* Types and constants of the program *)

Orientations == {"portrait", "landscape"}
PaperFormats == {"A4", "A3", "A2", "custom"}

Dimensions(w, h) == [width |-> w, height |-> h]

PAPER_FORMATS ==
  [f \in PaperFormats |->
     CASE f = "A4"     -> Dimensions(21 * CM, 594)
       [] f = "A3"     -> Dimensions(594, 42 * CM)
       [] f = "A2"     -> Dimensions(42 * CM, 1188)
       [] f = "custom" -> Dimensions(20 * CM, 20 * CM)]

validFileTypes == {"image/jpeg", "image/png", "image/tiff"}

ErrInvalidFileType == [message |-> "Invalid file type. Please upload JPG, PNG, or TIFF."]
ErrFailedToLoad    == [message |-> "Failed to load image. Please try another file."]
ErrCanvas          == [message |-> "Canvas not supported in your browser."]

----------------------------------------------------------------------------
(* Get current dimensions based on format and orientation *)

\* getCurrentDimensions without the swap of the landscape orientation
getCurrentDimensions_NoSwap ==
  IF paperFormat = "custom" THEN customDimensions ELSE PAPER_FORMATS[paperFormat]

getCurrentDimensions ==
  LET baseDimensions == IF paperFormat = "custom" THEN customDimensions
                        ELSE PAPER_FORMATS[paperFormat]
  IN  IF orientation = "landscape"
        THEN Dimensions(baseDimensions.height, baseDimensions.width)
        ELSE baseDimensions

----------------------------------------------------------------------------
(* The settings panel (lines 320-402) *)

Digits == <<"0", "1", "2", "3", "4", "5", "6", "7", "8", "9">>

DigitValue(c) == (CHOOSE i \in 1..10 : Digits[i] = c) - 1

IsDigit(c) == \E i \in 1..10 : Digits[i] = c

RECURSIVE DecimalValue(_)
DecimalValue(ds) ==
  IF ds = <<>> THEN 0
  ELSE 10 * DecimalValue(SubSeq(ds, 1, Len(ds) - 1)) + DigitValue(ds[Len(ds)])

\* parseFloat on the value of an <input type="number">: the value is either
\* the empty text (nothing or no number typed) or a decimal numeral
\* [-]digits[.digit]; the result is a number (in units of 1/CM) or NaN.
parseFloat(text) ==
  LET neg    == text # <<>> /\ text[1] = "-"
      body   == IF neg THEN Tail(text) ELSE text
      dot    == IF \E i \in 1..Len(body) : body[i] = "."
                  THEN CHOOSE i \in 1..Len(body) : body[i] = "."
                  ELSE Len(body) + 1
      whole  == SubSeq(body, 1, dot - 1)
      frac   == SubSeq(body, dot + 1, Len(body))
      wellFormed == /\ whole # <<>>
                    /\ \A i \in 1..Len(whole) : IsDigit(whole[i])
                    /\ Len(frac) <= 1
                    /\ \A i \in 1..Len(frac) : IsDigit(frac[i])
      magnitude == DecimalValue(whole) * CM + DecimalValue(frac) * (CM \div 10)
  IN  IF wellFormed
        THEN [nan |-> FALSE, value |-> IF neg THEN 0 - magnitude ELSE magnitude]
        ELSE [nan |-> TRUE, value |-> 0]

\* parseFloat(e.target.value) || 1 : NaN and 0 are falsy
OrOne(n) == IF n.nan \/ n.value = 0 THEN 1 * CM ELSE n.value

setPaperFormat(format) ==
  /\ paperFormat' = format
  /\ UNCHANGED <<sourceImage, fileName, fileType, orientation, customDimensions,
                 splitSections, isProcessing, error, loading, zipping, saved, lastExport>>

setOrientation(o) ==
  /\ orientation' = o
  /\ UNCHANGED <<sourceImage, fileName, fileType, paperFormat, customDimensions,
                 splitSections, isProcessing, error, loading, zipping, saved, lastExport>>

toggleOrientation ==
  /\ orientation' = IF orientation = "portrait" THEN "landscape" ELSE "portrait"
  /\ UNCHANGED <<sourceImage, fileName, fileType, paperFormat, customDimensions,
                 splitSections, isProcessing, error, loading, zipping, saved, lastExport>>

\* the width input is rendered only while paperFormat = 'custom' (line 341)
customWidthChange(text) ==
  /\ paperFormat = "custom"
  /\ customDimensions' = [customDimensions EXCEPT !.width = OrOne(parseFloat(text))]
  /\ UNCHANGED <<sourceImage, fileName, fileType, paperFormat, orientation,
                 splitSections, isProcessing, error, loading, zipping, saved, lastExport>>

customHeightChange(text) ==
  /\ paperFormat = "custom"
  /\ customDimensions' = [customDimensions EXCEPT !.height = OrOne(parseFloat(text))]
  /\ UNCHANGED <<sourceImage, fileName, fileType, paperFormat, orientation,
                 splitSections, isProcessing, error, loading, zipping, saved, lastExport>>

----------------------------------------------------------------------------
(* Handle file upload (lines 66-93) *)

\* A File: its name, its content type, and what decoding its content gives
\* (decodes = FALSE: the Image fires onerror).
File(name, type, decodes, w, h) ==
  [name |-> name, type |-> type, decodes |-> decodes, width |-> w, height |-> h]

\* the HTMLImageElement decoded from a file
Image(file, w, h) == [src |-> file, width |-> w, height |-> h]


\* handleFileUpload recording the file's name and type before it validates
\* the content type
handleFileUpload_NameFirst(file) ==
  IF file = Null
       THEN UNCHANGED <<appState, loading, zipping, saved, lastExport>>
       ELSE IF file.type \notin validFileTypes
         THEN /\ error' = ErrInvalidFileType
              /\ fileName' = file.name
              /\ fileType' = file.type
              /\ UNCHANGED <<sourceImage, paperFormat,
                             orientation, customDimensions, splitSections,
                             isProcessing, loading, zipping, saved, lastExport>>
         ELSE /\ Cardinality(loading \cup {file}) <= MaxLoading
              /\ error' = Null
              /\ fileName' = file.name
              /\ fileType' = file.type
              /\ loading' = loading \cup {file}
              /\ UNCHANGED <<sourceImage, paperFormat, orientation,
                             customDimensions, splitSections, isProcessing,
                             zipping, saved, lastExport>>

handleFileUpload(file) ==
  IF file = Null
       THEN UNCHANGED <<appState, loading, zipping, saved, lastExport>>
       ELSE IF file.type \notin validFileTypes
         THEN /\ error' = ErrInvalidFileType
              /\ UNCHANGED <<sourceImage, fileName, fileType, paperFormat,
                             orientation, customDimensions, splitSections,
                             isProcessing, loading, zipping, saved, lastExport>>
         ELSE /\ Cardinality(loading \cup {file}) <= MaxLoading
              /\ error' = Null
              /\ fileName' = file.name
              /\ fileType' = file.type
              /\ loading' = loading \cup {file}
              /\ UNCHANGED <<sourceImage, paperFormat, orientation,
                             customDimensions, splitSections, isProcessing,
                             zipping, saved, lastExport>>


\* img.onload keeping the sections of the previous image
imgOnload_KeepSections(file) ==
  /\ file \in loading
  /\ file.decodes
  /\ loading' = loading \ {file}
  /\ sourceImage' = Image(file, file.width, file.height)
  /\ UNCHANGED <<fileName, fileType, paperFormat, orientation, customDimensions,
                 splitSections, isProcessing, error, zipping, saved, lastExport>>

\* img.onload (lines 84-88)
imgOnload(file) ==
  /\ file \in loading
  /\ file.decodes
  /\ loading' = loading \ {file}
  /\ sourceImage' = Image(file, file.width, file.height)
  /\ splitSections' = <<>>
  /\ UNCHANGED <<fileName, fileType, paperFormat, orientation, customDimensions,
                 isProcessing, error, zipping, saved, lastExport>>

\* img.onerror (lines 89-91)
imgOnerror(file) ==
  /\ file \in loading
  /\ ~file.decodes
  /\ loading' = loading \ {file}
  /\ error' = ErrFailedToLoad
  /\ UNCHANGED <<sourceImage, fileName, fileType, paperFormat, orientation,
                 customDimensions, splitSections, isProcessing, zipping, saved, lastExport>>

----------------------------------------------------------------------------
(* Process and split the image (lines 128-203) *)

\* canvas.width = v : the attribute is an unsigned long, a fractional value
\* is truncated (v is in units of 1/PX pixel, the result in pixels)
CanvasSize(v) == v \div PX

\* sectionCanvas.toDataURL('image/png') after the drawImage of lines 173-177:
\* the PNG of a canvas of width x height pixels onto which the source
\* rectangle (sx, sy, sw, sh) of the image was drawn at (0, 0) in size
\* (sw, sh).  A canvas with no pixels encodes as the empty data URL "data:,".
toDataURL(image, sx, sy, sw, sh, canvasWidth, canvasHeight) ==
  [mime |-> "image/png", image |-> image, sx |-> sx, sy |-> sy, sw |-> sw,
   sh |-> sh, width |-> canvasWidth, height |-> canvasHeight]


\* createSection tagging a section with the whole output dimensions
createSection_FullSize(k, failing, outputDimensions, x, y, width, height) ==
  IF k \in failing
    THEN Null
    ELSE [dataUrl    |-> toDataURL(sourceImage, x, y, width, height,
                                   CanvasSize(width), CanvasSize(height)),
          dimensions |-> Dimensions(outputDimensions.width,
                                    outputDimensions.height)]

\* createSection (lines 164-186); k is the number of the section canvas and
\* failing the set of canvases whose getContext('2d') returns null
createSection(k, failing, outputDimensions, x, y, width, height) ==
  IF k \in failing
    THEN Null
    ELSE [dataUrl    |-> toDataURL(sourceImage, x, y, width, height,
                                   CanvasSize(width), CanvasSize(height)),
          dimensions |-> Dimensions(outputDimensions.width \div 2,
                                    outputDimensions.height \div 2)]

\* the sections pushed by lines 188-198
Sections(failing) ==
  LET outputDimensions == getCurrentDimensions
      canvasWidth  == sourceImage.width
      canvasHeight == sourceImage.height
      halfWidth  == (canvasWidth * PX) \div 2
      halfHeight == (canvasHeight * PX) \div 2
  IN  << createSection(1, failing, outputDimensions, 0, 0, halfWidth, halfHeight),
         createSection(2, failing, outputDimensions, halfWidth, 0, halfWidth, halfHeight),
         createSection(3, failing, outputDimensions, 0, halfHeight, halfWidth, halfHeight),
         createSection(4, failing, outputDimensions, halfWidth, halfHeight, halfWidth, halfHeight) >>

\* failing: the getContext calls that return null, 0 = the main canvas,
\* 1..4 = the section canvases
processImage(failing) ==
  IF sourceImage = Null
       THEN UNCHANGED <<appState, loading, zipping, saved, lastExport>>
       ELSE IF 0 \in failing
         THEN /\ error' = ErrCanvas
              /\ isProcessing' = FALSE
              /\ UNCHANGED <<sourceImage, fileName, fileType, paperFormat,
                             orientation, customDimensions, splitSections,
                             loading, zipping, saved, lastExport>>
         ELSE /\ splitSections' = Sections(failing)
              /\ isProcessing' = FALSE
              /\ UNCHANGED <<sourceImage, fileName, fileType, paperFormat,
                             orientation, customDimensions, error,
                             loading, zipping, saved, lastExport>>

----------------------------------------------------------------------------
(* Downloads (lines 205-234) *)

\* s.split(sep) for a one-character separator: the pieces between the
\* separators, in order
RECURSIVE split(_, _)
split(s, sep) ==
  IF \E i \in 1..Len(s) : s[i] = sep
    THEN LET i == CHOOSE j \in 1..Len(s) :
                    s[j] = sep /\ \A k \in 1..(j - 1) : s[k] # sep
         IN  <<SubSeq(s, 1, i - 1)>> \o split(SubSeq(s, i + 1, Len(s)), sep)
    ELSE <<s>>


\* the section name with the base cut at the last dot instead of the first
sectionFileName_LastDot(name, index) ==
  LET pieces == split(name, ".")
      base   == IF Len(pieces) = 1 THEN name
                ELSE SubSeq(name, 1, Len(name) - Len(pieces[Len(pieces)]) - 1)
  IN  base
        \o <<"_", "s", "e", "c", "t", "i", "o", "n", "_">>
        \o <<Digits[(index + 1) + 1]>>
        \o <<".", "p", "n", "g">>

\* `${fileName.split('.')[0]}_section_${index + 1}.png`  (lines 209, 228)
sectionFileName(name, index) ==
  split(name, ".")[1]
    \o <<"_", "s", "e", "c", "t", "i", "o", "n", "_">>
    \o <<Digits[(index + 1) + 1]>>
    \o <<".", "p", "n", "g">>

\* `${fileName.split('.')[0]}_split_images.zip`  (line 233)
archiveFileName(name) ==
  split(name, ".")[1]
    \o <<"_", "s", "p", "l", "i", "t", "_", "i", "m", "a", "g", "e", "s">>
    \o <<".", "z", "i", "p">>

\* the Download button of section card index (line 468); the cards are
\* rendered from splitSections (line 443)
downloadSection(index) ==
  /\ index + 1 \in 1..Len(splitSections)
  /\ splitSections[index + 1] # Null
  /\ saved' = [kind |-> "link",
               name |-> sectionFileName(fileName, index),
               href |-> splitSections[index + 1].dataUrl]
  /\ lastExport' = "downloadSection"
  /\ UNCHANGED <<appState, loading, zipping>>


\* downloadAllSections without the early return on an empty splitSections
downloadAllSections_NoGuard ==
  /\ lastExport' = "downloadAllSections"
  /\ IF \E i \in 1..Len(splitSections) : splitSections[i] = Null
       THEN UNCHANGED <<appState, loading, zipping, saved>>
       ELSE LET zip == [kind    |-> "zip",
                        name    |-> archiveFileName(fileName),
                        folder  |-> "split_images",
                        entries |-> [i \in 1..Len(splitSections) |->
                                       [name |-> sectionFileName(fileName, i - 1),
                                        data |-> splitSections[i].dataUrl]]]
            IN  /\ Cardinality(zipping \cup {zip}) <= MaxZipping
                /\ zipping' = zipping \cup {zip}
                /\ UNCHANGED <<appState, loading, saved>>

\* downloadAllSections up to its await (lines 216-232).  Reading
\* section.dataUrl of a null entry throws inside forEach: the promise is
\* rejected and nothing is generated.
downloadAllSections ==
  /\ lastExport' = "downloadAllSections"
  /\ IF Len(splitSections) = 0
       THEN UNCHANGED <<appState, loading, zipping, saved>>
       ELSE IF \E i \in 1..Len(splitSections) : splitSections[i] = Null
         THEN UNCHANGED <<appState, loading, zipping, saved>>
         ELSE LET zip == [kind    |-> "zip",
                          name    |-> archiveFileName(fileName),
                          folder  |-> "split_images",
                          entries |-> [i \in 1..Len(splitSections) |->
                                         [name |-> sectionFileName(fileName, i - 1),
                                          data |-> splitSections[i].dataUrl]]]
              IN  /\ Cardinality(zipping \cup {zip}) <= MaxZipping
                  /\ zipping' = zipping \cup {zip}
                  /\ UNCHANGED <<appState, loading, saved>>

\* the continuation after await zip.generateAsync (lines 232-233)
zipGenerated(zip) ==
  /\ zip \in zipping
  /\ zipping' = zipping \ {zip}
  /\ saved' = zip
  /\ UNCHANGED <<appState, loading, lastExport>>

----------------------------------------------------------------------------
(* The inputs of the handlers *)

\* the files offered to the upload: a JPEG of even size, a PNG of odd size,
\* a TIFF the browser cannot decode, and a text file
PhotoFile == File(<<"p", ".", "J">>, "image/jpeg", TRUE, 4, 2)
MapFile   == File(<<"m", ".", "p">>, "image/png", TRUE, 3, 3)
ScanFile  == File(<<"s", ".", "t">>, "image/tiff", FALSE, 0, 0)
NoteFile  == File(<<"n", ".", "t">>, "text/plain", FALSE, 0, 0)

Files == {PhotoFile, MapFile, ScanFile, NoteFile}

\* the outcomes of the getContext calls of one split: all succeed, or one
\* of them returns null
CtxFailures == {{}} \cup {{k} : k \in 0..4}

\* texts typed into a custom dimension input
CustomTexts == {<<"1", "5">>}

MoreCustomTexts == CustomTexts \cup
  {<<>>, <<"0">>, <<"-", "0">>, <<"-", "5">>, <<"1", "0">>, <<"7", ".", "5">>, <<"0", ".", "1">>, <<"-">>}

----------------------------------------------------------------------------
(* The application: uploads, decodings, splits and settings, interleaved *)

Init ==
  /\ sourceImage = Null
  /\ fileName = <<>>
  /\ fileType = ""
  /\ paperFormat = "A4"
  /\ orientation = "portrait"
  /\ customDimensions = Dimensions(20 * CM, 20 * CM)
  /\ splitSections = <<>>
  /\ isProcessing = FALSE
  /\ error = Null
  /\ loading = {}
  /\ zipping = {}
  /\ saved = Null
  /\ lastExport = "none"

Next ==
  \/ \E file \in Files \cup {Null} : handleFileUpload(file)
  \/ \E file \in loading : imgOnload(file)
  \/ \E file \in loading : imgOnerror(file)
  \/ \E failing \in CtxFailures : processImage(failing)
  \/ \E format \in PaperFormats : setPaperFormat(format)
  \/ \E o \in Orientations : setOrientation(o)
  \/ toggleOrientation
  \/ \E text \in CustomTexts : customWidthChange(text)
  \/ \E text \in CustomTexts : customHeightChange(text)

Spec == Init /\ [][Next]_vars

----------------------------------------------------------------------------
(* The settings panel alone, with more texts typed into the custom inputs *)

NextDims ==
  \/ \E format \in PaperFormats : setPaperFormat(format)
  \/ \E o \in Orientations : setOrientation(o)
  \/ toggleOrientation
  \/ \E text \in MoreCustomTexts : customWidthChange(text)
  \/ \E text \in MoreCustomTexts : customHeightChange(text)

SpecDims == Init /\ [][NextDims]_vars

----------------------------------------------------------------------------
(* The split alone, on a loaded image of every size up to MaxSide *)

InitSplit ==
  /\ \E w \in 1..MaxSide, h \in 1..MaxSide : sourceImage = Image(PhotoFile, w, h)
  /\ fileName = PhotoFile.name
  /\ fileType = PhotoFile.type
  /\ paperFormat = "A4"
  /\ orientation = "portrait"
  /\ customDimensions = Dimensions(20 * CM, 20 * CM)
  /\ splitSections = <<>>
  /\ isProcessing = FALSE
  /\ error = Null
  /\ loading = {}
  /\ zipping = {}
  /\ saved = Null
  /\ lastExport = "none"

NextSplit ==
  \/ \E failing \in CtxFailures : processImage(failing)
  \/ toggleOrientation

SpecSplit == InitSplit /\ [][NextSplit]_vars

----------------------------------------------------------------------------
(* The downloads alone, for every file name up to MaxNameLen characters *)

NameChars == {"p", ".", "J"}

RECURSIVE Names(_)
Names(n) ==
  IF n = 0 THEN {<<>>}
  ELSE Names(n - 1) \cup {Append(s, c) : s \in Names(n - 1), c \in NameChars}

InitExport ==
  /\ \E name \in Names(MaxNameLen) :
       /\ fileName = name
       /\ sourceImage = Image(File(name, "image/png", TRUE, 4, 2), 4, 2)
  /\ fileType = "image/png"
  /\ paperFormat = "A4"
  /\ orientation = "portrait"
  /\ customDimensions = Dimensions(20 * CM, 20 * CM)
  /\ splitSections \in {<<>>, Sections({})}
  /\ isProcessing = FALSE
  /\ error = Null
  /\ loading = {}
  /\ zipping = {}
  /\ saved = Null
  /\ lastExport = "none"

NextExport ==
  \/ \E index \in 0..3 : downloadSection(index)
  \/ downloadAllSections
  \/ \E zip \in zipping : zipGenerated(zip)

SpecExport == InitExport /\ [][NextExport]_vars

----------------------------------------------------------------------------
(* Properties of the dimension resolver *)

\* the documented base dimensions, in units of 0.05 cm
DocumentedBase(format) ==
  CASE format = "A4"     -> <<420, 594>>      \* 21 x 29.7
    [] format = "A3"     -> <<594, 840>>      \* 29.7 x 42
    [] format = "A2"     -> <<840, 1188>>     \* 42 x 59.4
    [] format = "custom" -> <<customDimensions.width, customDimensions.height>>

\* C1: for every paper format and orientation getCurrentDimensions returns
\* the format's base dimensions (A4 = 21 x 29.7, A3 = 29.7 x 42,
\* A2 = 42 x 59.4, custom = the current customDimensions, which are 20 x 20
\* initially), unchanged under portrait and with width and height swapped
\* under landscape.
C1_BaseOrSwapped ==
  /\ customDimensions = Dimensions(400, 400)
  /\ [](LET base == DocumentedBase(paperFormat)
            d    == getCurrentDimensions
        IN  /\ orientation = "portrait"  => d.width = base[1] /\ d.height = base[2]
            /\ orientation = "landscape" => d.width = base[2] /\ d.height = base[1])

\* C1 witness: the custom format in landscape with a width that differs from
\* the height, resolved to the swapped pair
C1_Witness ==
  /\ paperFormat = "custom"
  /\ orientation = "landscape"
  /\ customDimensions.width = 300
  /\ customDimensions.height = 150
  /\ getCurrentDimensions = Dimensions(150, 300)

\* C7: a custom width or height that is non-positive or non-numeric never
\* becomes an effective dimension: the Dimensions returned by
\* getCurrentDimensions have width > 0 and height > 0 in every reachable
\* state.
C7_PositiveDimensions ==
  /\ getCurrentDimensions.width > 0
  /\ getCurrentDimensions.height > 0

----------------------------------------------------------------------------
(* Properties of the partitioner *)

\* all four canvases of the last split gave a drawing surface
SplitSucceeded ==
  /\ Len(splitSections) = 4
  /\ \A i \in 1..4 : splitSections[i] # Null

\* the source rectangle of section i, in pixels times PX
Region(i) ==
  LET u == splitSections[i].dataUrl IN <<u.sx, u.sy, u.sw, u.sh>>

\* a rectangle given in whole pixels
Pixels(x, y, w, h) == <<x * PX, y * PX, w * PX, h * PX>>

\* C2: a successful processImage on an image of W x H pixels crops, in the
\* order top-left, top-right, bottom-left, bottom-right, the regions
\* (0, 0, midX, midY), (midX, 0, W-midX, midY), (0, midY, midX, H-midY),
\* (midX, midY, W-midX, H-midY), with midX = floor(W/2), midY = floor(H/2).
C2_FloorCeilRegions ==
  SplitSucceeded =>
    LET W == sourceImage.width
        H == sourceImage.height
        midX == W \div 2
        midY == H \div 2
    IN  /\ Region(1) = Pixels(0, 0, midX, midY)
        /\ Region(2) = Pixels(midX, 0, W - midX, midY)
        /\ Region(3) = Pixels(0, midY, midX, H - midY)
        /\ Region(4) = Pixels(midX, midY, W - midX, H - midY)

\* pixel (c, r) of the source lies inside the source rectangle of section i
Covers(i, c, r) ==
  LET u == splitSections[i].dataUrl
  IN  /\ u.sx <= c * PX /\ (c + 1) * PX <= u.sx + u.sw
      /\ u.sy <= r * PX /\ (r + 1) * PX <= u.sy + u.sh

\* C3: the four pixel regions cut by processImage are pairwise
\* non-overlapping and together cover every pixel of the source exactly
\* once; the widths of a left and a right section sum to W and the heights
\* of a top and a bottom section sum to H.
C3_ExactTiling ==
  SplitSucceeded =>
    LET W == sourceImage.width
        H == sourceImage.height
    IN  /\ \A c \in 0..(W - 1), r \in 0..(H - 1) :
             Cardinality({i \in 1..4 : Covers(i, c, r)}) = 1
        /\ splitSections[1].dataUrl.width + splitSections[2].dataUrl.width = W
        /\ splitSections[3].dataUrl.width + splitSections[4].dataUrl.width = W
        /\ splitSections[1].dataUrl.height + splitSections[3].dataUrl.height = H
        /\ splitSections[2].dataUrl.height + splitSections[4].dataUrl.height = H

----------------------------------------------------------------------------
(* Properties of the application state *)

\* the entries of splitSections that are sections
SectionIndexes == {i \in 1..Len(splitSections) : splitSections[i] # Null}

\* half of the output Dimensions of the current settings
HalfOfCurrent ==
  Dimensions(getCurrentDimensions.width \div 2, getCurrentDimensions.height \div 2)

\* C4 (as claimed): whenever splitSections is non-empty, all its sections
\* carry the same physical dimensions, equal to half the width and half the
\* height that getCurrentDimensions yields for the currently selected
\* format, orientation and custom dimensions.
C4_HalfOfCurrentSettings ==
  \A i \in SectionIndexes : splitSections[i].dimensions = HalfOfCurrent

\* C4 (amended): all sections of splitSections carry the same physical
\* dimensions; a split tags them with half the width and half the height
\* that getCurrentDimensions yields for the settings selected when the
\* split runs, and a later change of format, orientation or custom
\* dimensions leaves splitSections as it is.
C4_HalfOfSettingsAtSplit ==
  /\ [](\A i, j \in SectionIndexes :
          splitSections[i].dimensions = splitSections[j].dimensions)
  /\ [][ /\ (splitSections' # splitSections /\ splitSections' # <<>>) =>
              \A i \in 1..Len(splitSections') :
                 splitSections'[i] # Null =>
                    splitSections'[i].dimensions = HalfOfCurrent
         /\ (\/ paperFormat' # paperFormat
             \/ orientation' # orientation
             \/ customDimensions' # customDimensions) =>
              splitSections' = splitSections ]_vars

\* C4 witness: four sections tagged by a split, and settings changed since
\* to other output dimensions
C4_Witness ==
  /\ SplitSucceeded
  /\ splitSections[1].dimensions = Dimensions(210, 297)
  /\ paperFormat = "custom"
  /\ HalfOfCurrent = Dimensions(200, 150)

\* C5: an upload whose content type is not image/jpeg, image/png or
\* image/tiff sets the invalid-file-type message, starts no decoding and
\* leaves sourceImage, fileName, fileType and splitSections unchanged.
C5_InvalidTypeRejected ==
  [][ \A file \in Files :
        (file.type \notin {"image/jpeg", "image/png", "image/tiff"}
           /\ handleFileUpload(file)) =>
          /\ error' = ErrInvalidFileType
          /\ UNCHANGED <<sourceImage, fileName, fileType, splitSections, loading>> ]_vars

\* C5 witness: the invalid-file-type message shown over a loaded and split
\* image whose name and type are still those of its file
C5_Witness ==
  /\ error = ErrInvalidFileType
  /\ sourceImage = Image(PhotoFile, 4, 2)
  /\ fileName = PhotoFile.name
  /\ fileType = PhotoFile.type
  /\ SplitSucceeded
  /\ loading = {}

\* C6: a split is all-or-nothing: in every reachable state splitSections is
\* either empty or holds exactly four complete sections, never a null entry.
C6_AllOrNothing ==
  \/ splitSections = <<>>
  \/ /\ Len(splitSections) = 4
     /\ \A i \in 1..4 :
          /\ splitSections[i] # Null
          /\ DOMAIN splitSections[i] = {"dataUrl", "dimensions"}

\* C10: whenever splitSections is non-empty, its sections were all cut from
\* the image held in sourceImage by one split (one list of four entries,
\* tagged alike); a completed load of an image empties splitSections.
C10_ReplacedWholesale ==
  /\ [](splitSections # <<>> =>
          /\ sourceImage # Null
          /\ Len(splitSections) = 4
          /\ \A i \in SectionIndexes :
                splitSections[i].dataUrl.image = sourceImage)
  /\ [][ /\ sourceImage' # sourceImage => splitSections' = <<>>
         /\ (\E file \in Files : imgOnload(file)) => splitSections' = <<>>
         /\ (splitSections' # splitSections /\ splitSections' # <<>>) =>
              /\ Len(splitSections') = 4
              /\ \A i \in 1..4 :
                   splitSections'[i] # Null =>
                     /\ splitSections'[i].dataUrl.image = sourceImage'
                     /\ splitSections'[i].dimensions = HalfOfCurrent ]_vars

\* C10 witness: the sections of the second image, split while the upload of
\* another file is still decoding
C10_Witness ==
  /\ sourceImage = Image(MapFile, 3, 3)
  /\ SplitSucceeded
  /\ \A i \in 1..4 : splitSections[i].dataUrl.image = Image(MapFile, 3, 3)
  /\ loading = {PhotoFile}
  /\ fileName = PhotoFile.name

----------------------------------------------------------------------------
(* Properties of the downloads *)

\* the position of the first dot of a name, Len(name) + 1 if it has none
FirstDot(name) ==
  CHOOSE k \in 1..(Len(name) + 1) :
    /\ \A j \in 1..(k - 1) : name[j] # "."
    /\ k <= Len(name) => name[k] = "."

\* <base>_section_<i>.png with <base> the part of the name before its first dot
DocumentedSectionName(name, i) ==
  [k \in 1..(FirstDot(name) - 1) |-> name[k]]
    \o <<"_", "s", "e", "c", "t", "i", "o", "n", "_">>
    \o <<CASE i = 1 -> "1" [] i = 2 -> "2" [] i = 3 -> "3" [] i = 4 -> "4">>
    \o <<".", "p", "n", "g">>

\* C8: for every file name and every section index i in 1..4 the download
\* name of section i, as a single download and as an entry of the archive,
\* is <base>_section_<i>.png, where <base> is the part of the file name
\* before its first dot.
C8_SectionNames ==
  [][ /\ \A index \in 0..3 :
           downloadSection(index) =>
             saved'.name = DocumentedSectionName(fileName, index + 1)
      /\ \A zip \in zipping' \ zipping :
           \A i \in 1..4 :
             zip.entries[i].name = DocumentedSectionName(fileName, i) ]_vars

\* C8 witness: section 2 of a file whose name has two dots, saved under the
\* part before the first dot
C8_Witness ==
  /\ fileName = <<"p", ".", ".", "J">>
  /\ lastExport = "downloadSection"
  /\ saved = [kind |-> "link",
              name |-> <<"p", "_", "s", "e", "c", "t", "i", "o", "n", "_", "2", ".", "p", "n", "g">>,
              href |-> splitSections[2].dataUrl]

\* C9: downloadAllSections invoked while splitSections is empty performs no
\* action: no archive is built or saved and no state variable changes.
C9_NoSectionsNoArchive ==
  [][ (Len(splitSections) = 0 /\ downloadAllSections) =>
         UNCHANGED <<appState, loading, zipping, saved>> ]_vars

\* C9 witness: downloadAllSections was called with no sections, and there
\* is neither an archive in the making nor anything saved
C9_Witness ==
  /\ lastExport = "downloadAllSections"
  /\ splitSections = <<>>
  /\ zipping = {}
  /\ saved = Null

----------------------------------------------------------------------------
(* Properties of the upload under interleaved decodings *)

\* C11: whenever sourceImage is non-null, fileName and fileType are those
\* of the file that sourceImage was decoded from (so the download names are
\* derived from the image actually split), under every interleaving of
\* uploads and their load completions or load failures.
C11_NameOfLoadedImage ==
  sourceImage # Null =>
    /\ fileName = sourceImage.src.name
    /\ fileType = sourceImage.src.type

====
